---- MODULE Spec2Model ----
(***************************************************************************)
(* Network-region detection, the connectivity check, mirror-source         *)
(* configuration lookup, the two mirror writers and the status report of   *)
(* tools/network_region, with the commands that drive them.                *)
(*                                                                         *)
(* The specifications of the module:                                       *)
(*   SpecDetect  check_network_location over every probe outcome           *)
(*   SpecConfig  ConfigManager loading mirrors.yaml and get_default_mirror *)
(*   SpecUv      `update --uv-only` runs writing ~/.config/uv/uv.toml      *)
(*   SpecDocker  `update --docker-only` runs writing ~/.docker/config.json *)
(*   Spec        every form of the `update` command over both files        *)
(*   SpecCli     the `detect`, `status`, `update` and `install` commands   *)
(*   SpecConnect check_internet_connection racing its four attempts        *)
(*   SpecJoin    check_network_location with its probes interleaved        *)
(***************************************************************************)
EXTENDS Integers, Sequences, FiniteSets, TLC

VARIABLES
    probe,        \* detection: domain -> outcome of its _http_head_fast worker
    detected,     \* detection: value returned by check_network_location
    mirrorsYaml,  \* config/mirrors.yaml on disk
    configCache,  \* ConfigManager._config_cache
    lookup,       \* last get_default_mirror call and what it returned
    uvFile,       \* ~/.config/uv/uv.toml on disk
    dockerFile,   \* ~/.docker/config.json on disk
    last,         \* the last command run: its inputs and results
    status,       \* what get_mirror_status returned to the last `status` command
    attempt,      \* connectivity: test domain -> state of its _check_socket_connection
    connected,    \* connectivity: value returned by check_internet_connection
    pc,           \* where the caller of the running thread pool stands
    counted,      \* domain -> times its future was taken by an as_completed loop
    tally,        \* detection: region -> `successful` of its counting loop
    results       \* detection: region -> summary returned by its counting loop

vars == <<probe, detected, mirrorsYaml, configCache, lookup, uvFile, dockerFile, last,
          status, attempt, connected, pc, counted, tally, results>>

\* The variables of the two thread pools, which the sequential specifications leave alone.
poolVars == <<attempt, connected, pc, counted, tally, results>>

(***************************************************************************)
(* NetworkLocation and the mirror kinds                                    *)
(***************************************************************************)
CHINA == "china"
GLOBAL == "global"
UNKNOWN == "unknown"
NetworkLocation == {CHINA, GLOBAL, UNKNOWN}

PipKind == "default_pip_mirror"
DockerKind == "default_docker_mirror"
Kinds == {PipKind, DockerKind}

EmptyMap == [x \in {} |-> ""]

PartialMaps(S, T) == UNION {[s -> T] : s \in SUBSET S}

(***************************************************************************)
(* Region detection (network.py)                                           *)
(***************************************************************************)
china_domains == {"baidu.com", "taobao.com", "qq.com", "aliyun.com", "163.com"}
global_domains == {"google.com", "facebook.com", "twitter.com", "github.com", "cloudflare.com"}
Domains == china_domains \cup global_domains

\* What requests.head does for one domain: answers, raises a RequestException
\* (DNS failure, refused, timeout), or raises something else.
ProbeOutcomes == {"ok", "request_exception", "other_exception"}

\* The classification threshold 0.6, as the fraction ThresholdNum / ThresholdDen.
ThresholdNum == 6
ThresholdDen == 10

\* The future of one worker: it holds (success, time) or an exception.
_http_head_fast(outcome) ==
    CASE outcome = "ok" -> [raised |-> FALSE, success |-> TRUE]
      [] outcome = "request_exception" -> [raised |-> FALSE, success |-> FALSE]
      [] OTHER -> [raised |-> TRUE, success |-> FALSE]

\* A bug that lets future.result() raise out of the counting loop.
_count_successful_domains_propagating(futures, outcomes) ==
    LET res(d) == _http_head_fast(outcomes[d])
        successful == Cardinality({d \in futures : ~res(d).raised /\ res(d).success})
        total == Cardinality(futures)
    IN [raised |-> \E d \in futures : res(d).raised,
        num |-> IF total > 0 THEN successful ELSE 0,
        den |-> IF total > 0 THEN total ELSE 1]

\* success_rate = successful / total, kept as the fraction num / den.
_count_successful_domains(futures, outcomes) ==
    LET res(d) == _http_head_fast(outcomes[d])
        successful == Cardinality({d \in futures : ~res(d).raised /\ res(d).success})
        total == Cardinality(futures)
    IN [raised |-> FALSE,
        num |-> IF total > 0 THEN successful ELSE 0,
        den |-> IF total > 0 THEN total ELSE 1]

\* A bug that classifies with >= 0.6 instead of > 0.6.
classify_inclusive(china_results, global_results) ==
    IF global_results.num * ThresholdDen >= ThresholdNum * global_results.den
    THEN GLOBAL ELSE CHINA

\* Lines 53-62: the in-region rate only selects a log message.
classify(china_results, global_results) ==
    IF global_results.num * ThresholdDen > ThresholdNum * global_results.den
    THEN GLOBAL
    ELSE IF china_results.num * 2 > china_results.den THEN CHINA ELSE CHINA

check_network_location(outcomes) ==
    LET china_results == _count_successful_domains(china_domains, outcomes)
        global_results == _count_successful_domains(global_domains, outcomes)
    IN IF china_results.raised \/ global_results.raised
       THEN "raised"
       ELSE classify(china_results, global_results)

(***************************************************************************)
(* Config store (config_loader.py)                                         *)
(***************************************************************************)
MirrorUrls == {"", "u1", "u2"}

\* A parsed mapping: kind -> region -> default mirror, both levels partial.
MirrorDocs == PartialMaps(Kinds, PartialMaps(NetworkLocation, MirrorUrls))

\* mirrors.yaml: absent, not valid YAML, not readable as UTF-8 text, an empty
\* document, a document that is a list or scalar, or a mapping.
YamlStates == {"absent", "yaml_error", "unreadable", "empty", "non_mapping", "mapping"}

YamlFile(state, doc) == [state |-> state, doc |-> doc]

YamlFiles ==
    {YamlFile(s, EmptyMap) : s \in YamlStates \ {"mapping"}}
        \cup {YamlFile("mapping", d) : d \in MirrorDocs}

\* A loaded configuration value: a mapping, or some other YAML value.
Config(isMapping, doc) == [mapping |-> isMapping, doc |-> doc]
EmptyConfig == Config(TRUE, EmptyMap)

get_config_path(file) == IF file.state = "absent" THEN "none" ELSE "path"

\* A bug that lets yaml.YAMLError escape instead of returning {}.
_load_config_yaml_error_raises(file) ==
    IF get_config_path(file) = "none"
    THEN [raised |-> FALSE, config |-> EmptyConfig]
    ELSE CASE file.state \in {"yaml_error", "unreadable"} -> [raised |-> TRUE, config |-> EmptyConfig]
           [] file.state = "empty" -> [raised |-> FALSE, config |-> EmptyConfig]
           [] file.state = "non_mapping" -> [raised |-> FALSE, config |-> Config(FALSE, EmptyMap)]
           [] OTHER -> [raised |-> FALSE, config |-> Config(TRUE, file.doc)]

\* ConfigManager._load_config: only FileNotFoundError and yaml.YAMLError are caught.
_load_config(file) ==
    IF get_config_path(file) = "none"
    THEN [raised |-> FALSE, config |-> EmptyConfig]
    ELSE CASE file.state = "yaml_error" -> [raised |-> FALSE, config |-> EmptyConfig]
           [] file.state = "unreadable" -> [raised |-> TRUE, config |-> EmptyConfig]
           [] file.state = "empty" -> [raised |-> FALSE, config |-> EmptyConfig]
           [] file.state = "non_mapping" -> [raised |-> FALSE, config |-> Config(FALSE, EmptyMap)]
           [] OTHER -> [raised |-> FALSE, config |-> Config(TRUE, file.doc)]

\* A bug that drops the fallback to the GLOBAL entry.
get_default_mirror_no_fallback(config, mirror_type, location, default_value) ==
    IF ~config.mapping
    THEN [raised |-> TRUE, value |-> ""]
    ELSE LET mirrors == IF mirror_type \in DOMAIN config.doc
                        THEN config.doc[mirror_type] ELSE EmptyMap
         IN [raised |-> FALSE,
             value |-> IF location \in DOMAIN mirrors
                       THEN mirrors[location] ELSE default_value]

\* config.get(mirror_type, {}) then mirrors.get(location, mirrors.get(GLOBAL, default)).
\* A document that is not a mapping has no .get: AttributeError.
get_default_mirror(config, mirror_type, location, default_value) ==
    IF ~config.mapping
    THEN [raised |-> TRUE, value |-> ""]
    ELSE LET mirrors == IF mirror_type \in DOMAIN config.doc
                        THEN config.doc[mirror_type] ELSE EmptyMap
         IN [raised |-> FALSE,
             value |-> IF location \in DOMAIN mirrors
                       THEN mirrors[location]
                       ELSE IF GLOBAL \in DOMAIN mirrors
                            THEN mirrors[GLOBAL] ELSE default_value]

get_default_pip_mirror(config, location) == get_default_mirror(config, PipKind, location, "")
get_default_docker_mirror(config, location) == get_default_mirror(config, DockerKind, location, "")

(***************************************************************************)
(* Package-index config ~/.config/uv/uv.toml (mirror_manager.py)           *)
(*                                                                         *)
(* The file is kept as its text says: whether it is there, whether it is   *)
(* unparsable for reasons of its own (garbage), whether it holds top-level *)
(* settings besides `index`, what `index` is, and for an array of tables   *)
(* each entry's url and the literal written for its `default` key.         *)
(***************************************************************************)
MaxIndex == 2

ExistingUrls == {"e1"}

\* TOML spells booleans true / false; True / False are what Python prints.
TomlBoolLiterals == {"true", "false"}
DefaultLiterals == {"absent", "true", "false", "True", "False"}

TextEntry(url, default) == [url |-> url, default |-> default]

UvFile(exists, garbage, top, indexKind, index) ==
    [exists |-> exists, garbage |-> garbage, top |-> top, indexKind |-> indexKind, index |-> index]

UvAbsent == UvFile(FALSE, FALSE, FALSE, "none", <<>>)

SeqsUpTo(S, n) == UNION {[1..k -> S] : k \in 0..n}

\* The files another tool or the user may have left: absent, unparsable, with or
\* without other settings, `index` missing, a scalar, or an array of tables.
InitialUvFiles ==
    {UvAbsent, UvFile(TRUE, TRUE, FALSE, "none", <<>>)}
        \cup {UvFile(TRUE, FALSE, top, "none", <<>>) : top \in BOOLEAN}
        \cup {UvFile(TRUE, FALSE, FALSE, "scalar", <<>>)}
        \cup {UvFile(TRUE, FALSE, top, "array", idx) :
                top \in BOOLEAN,
                idx \in SeqsUpTo({TextEntry(u, d) : u \in ExistingUrls,
                                                    d \in {"absent"} \cup TomlBoolLiterals},
                                 MaxIndex)}

\* An index entry in memory: the `default` key may be missing.
Entry(url, has_default, default) == [url |-> url, has_default |-> has_default, default |-> default]

ParseEntry(t) == Entry(t.url, t.default # "absent", t.default = "true")

\* tomllib.load: the document as a dict, or TOMLDecodeError.
tomllib_load(file) ==
    IF file.garbage \/ \E i \in 1..Len(file.index) :
                          file.index[i].default \notin {"absent"} \cup TomlBoolLiterals
    THEN [raised |-> TRUE, top |-> FALSE, indexKind |-> "none", index |-> <<>>]
    ELSE [raised |-> FALSE, top |-> file.top, indexKind |-> file.indexKind,
          index |-> [i \in 1..Len(file.index) |-> ParseEntry(file.index[i])]]

\* Lines 74-85: the existing configuration or {}, with `index` defaulted to [].
read_uv_config(file) ==
    LET loaded == tomllib_load(file)
    IN IF file.exists /\ ~loaded.raised
       THEN [top |-> loaded.top,
             indexKind |-> IF loaded.indexKind = "none" THEN "array" ELSE loaded.indexKind,
             index |-> loaded.index]
       ELSE [top |-> FALSE, indexKind |-> "array", index |-> <<>>]

FirstDefault(index) ==
    LET hits == {i \in 1..Len(index) : index[i].has_default /\ index[i].default}
    IN IF hits = {} THEN 0 ELSE CHOOSE i \in hits : \A j \in hits : i <= j

\* A bug that adds a default entry without looking for an existing one.
set_default_index_always_append(index, default_mirror) ==
    Append(index, Entry(default_mirror, TRUE, TRUE))

\* Lines 87-100: the first entry flagged default gets the url, else one is appended.
set_default_index(index, default_mirror) ==
    LET idx == FirstDefault(index)
    IN IF idx # 0
       THEN [index EXCEPT ![idx].url = default_mirror]
       ELSE Append(index, Entry(default_mirror, TRUE, TRUE))

\* f"{key} = {value}" for a bool value: Python prints True / False.
FormatBool(value) == IF value THEN "True" ELSE "False"

\* Lines 106-113: one [[index]] table, a line per key.
write_index_entry(entry) ==
    TextEntry(entry.url, IF entry.has_default THEN FormatBool(entry.default) ELSE "absent")

\* Lines 103-115: only the `index` entries are written; the first `cut` of them
\* have reached the disk when a write fails.
write_uv_config(index, cut) ==
    UvFile(TRUE, FALSE, FALSE,
           IF cut = 0 THEN "none" ELSE "array",
           [i \in 1..cut |-> write_index_entry(index[i])])

\* What the file system does to one writer call.
\* "no_access": mkdir or open raises before a byte is written; "write_fail": the
\* file was opened (and so truncated) and a later write raises.
IoKinds == {"ok", "no_access", "write_fail"}

UvIoOutcomes ==
    {[kind |-> k, cut |-> 0] : k \in {"ok", "no_access"}}
        \cup {[kind |-> "write_fail", cut |-> c] : c \in 0..MaxIndex}

DockerIoOutcomes == {[kind |-> k, cut |-> 0] : k \in IoKinds}

Min(a, b) == IF a < b THEN a ELSE b

\* update_uv_mirror: every exception ends in `return False`.
update_uv_mirror(file, config, location, io) ==
    LET default_mirror == get_default_pip_mirror(config, location)
        config_data == read_uv_config(file)
        index == set_default_index(config_data.index, default_mirror.value)
    IN CASE io.kind = "no_access" -> [result |-> FALSE, file |-> file]
         [] default_mirror.raised -> [result |-> FALSE, file |-> file]
         [] config_data.indexKind = "scalar" -> [result |-> FALSE, file |-> file]
         [] io.kind = "write_fail" ->
                [result |-> FALSE, file |-> write_uv_config(index, Min(io.cut, Len(index) - 1))]
         [] OTHER -> [result |-> TRUE, file |-> write_uv_config(index, Len(index))]

(***************************************************************************)
(* Registry config ~/.docker/config.json (mirror_manager.py)               *)
(***************************************************************************)
\* Mirror lists set by other means, and the sibling keys other tools keep there.
OtherMirrorLists == {<<>>, <<"m9">>, <<"m9", "m8">>}
SiblingKeys == {"auths", "credsStore"}
SiblingValues == {"v1"}

DockerFile(exists, kind, has_mirrors, mirrors, siblings) ==
    [exists |-> exists, kind |-> kind, has_mirrors |-> has_mirrors,
     mirrors |-> mirrors, siblings |-> siblings]

DockerAbsent == DockerFile(FALSE, "malformed", FALSE, <<>>, EmptyMap)
DockerMalformed == DockerFile(TRUE, "malformed", FALSE, <<>>, EmptyMap)
DockerArray == DockerFile(TRUE, "array", FALSE, <<>>, EmptyMap)

\* Absent, not JSON, a JSON array, or an object with or without `registry-mirrors`.
InitialDockerFiles ==
    {DockerAbsent, DockerMalformed, DockerArray}
        \cup {DockerFile(TRUE, "object", FALSE, <<>>, sib) :
                sib \in PartialMaps(SiblingKeys, SiblingValues)}
        \cup {DockerFile(TRUE, "object", TRUE, m, sib) :
                m \in OtherMirrorLists,
                sib \in PartialMaps(SiblingKeys, SiblingValues)}

EmptyObject == [kind |-> "object", has_mirrors |-> FALSE, mirrors |-> <<>>, siblings |-> EmptyMap]

\* A bug that starts from {} whatever the file holds.
read_docker_config_fresh(file) == EmptyObject

\* Lines 142-148: the existing document, or {} when absent or not JSON.
read_docker_config(file) ==
    IF file.exists /\ file.kind # "malformed"
    THEN [kind |-> file.kind, has_mirrors |-> file.has_mirrors,
          mirrors |-> file.mirrors, siblings |-> file.siblings]
    ELSE EmptyObject

\* A bug that appends the mirror to the list already there.
set_registry_mirrors_append(config_data, default_mirror) ==
    IF default_mirror = ""
    THEN [raised |-> FALSE,
          data |-> [config_data EXCEPT !.has_mirrors = FALSE, !.mirrors = <<>>]]
    ELSE IF config_data.kind # "object"
         THEN [raised |-> TRUE, data |-> config_data]
         ELSE [raised |-> FALSE,
               data |-> [config_data EXCEPT !.has_mirrors = TRUE,
                                            !.mirrors = Append(config_data.mirrors, default_mirror)]]

\* Lines 150-161: delete the key for an empty mirror, else set it to [default_mirror].
\* Item assignment on a JSON array raises TypeError.
set_registry_mirrors(config_data, default_mirror) ==
    IF default_mirror = ""
    THEN [raised |-> FALSE,
          data |-> [config_data EXCEPT !.has_mirrors = FALSE, !.mirrors = <<>>]]
    ELSE IF config_data.kind # "object"
         THEN [raised |-> TRUE, data |-> config_data]
         ELSE [raised |-> FALSE,
               data |-> [config_data EXCEPT !.has_mirrors = TRUE,
                                            !.mirrors = <<default_mirror>>]]

\* Lines 164-165: json.dump of the whole document.
write_docker_config(data) ==
    DockerFile(TRUE, data.kind, data.has_mirrors, data.mirrors, data.siblings)

\* update_docker_mirror: every exception ends in `return False`; a write that
\* fails part-way leaves text that is not JSON.
update_docker_mirror(file, config, location, io) ==
    LET default_mirror == get_default_docker_mirror(config, location)
        updated == set_registry_mirrors(read_docker_config(file), default_mirror.value)
    IN CASE io.kind = "no_access" -> [result |-> FALSE, file |-> file]
         [] default_mirror.raised -> [result |-> FALSE, file |-> file]
         [] updated.raised -> [result |-> FALSE, file |-> file]
         [] io.kind = "write_fail" -> [result |-> FALSE, file |-> DockerMalformed]
         [] OTHER -> [result |-> TRUE, file |-> write_docker_config(updated.data)]

Outcome(ok) == IF ok THEN "ok" ELSE "fail"

\* A bug that stops after a failed package-index update.
update_all_mirrors_stop_on_failure(uv, docker, config, location, ioUv, ioDocker) ==
    LET u == update_uv_mirror(uv, config, location, ioUv)
        d == update_docker_mirror(docker, config, location, ioDocker)
    IN IF u.result
       THEN [uv |-> Outcome(u.result), docker |-> Outcome(d.result),
             uvFile |-> u.file, dockerFile |-> d.file]
       ELSE [uv |-> Outcome(u.result), docker |-> "skip",
             uvFile |-> u.file, dockerFile |-> docker]

\* update_all_mirrors: the dict literal runs the two writers one after the other.
update_all_mirrors(uv, docker, config, location, ioUv, ioDocker) ==
    LET u == update_uv_mirror(uv, config, location, ioUv)
        d == update_docker_mirror(docker, config, location, ioDocker)
    IN [uv |-> Outcome(u.result), docker |-> Outcome(d.result),
        uvFile |-> u.file, dockerFile |-> d.file]

(***************************************************************************)
(* SpecDetect: one call of check_network_location                          *)
(***************************************************************************)
NoLookup == [done |-> FALSE, kind |-> PipKind, location |-> CHINA, raised |-> FALSE, value |-> ""]
NoYaml == YamlFile("absent", EmptyMap)
NotLoaded == [status |-> "unloaded", config |-> EmptyConfig]

\* No `status` command has reported yet.
NoStatus ==
    [done |-> FALSE, raised |-> FALSE, network_location |-> "none", uv_mirror |-> "unset",
     pip_mirror |-> "unset", docker_mirror |-> "unset", recommended_uv_mirror |-> "",
     recommended_docker_mirror |-> ""]

test_domains == {"baidu.com", "google.com", "cloudflare.com", "aliyun.com"}

Regions == {CHINA, GLOBAL}

NoResult == [done |-> FALSE, num |-> 0, den |-> 1]

\* No thread pool has been started.
NoPools ==
    /\ attempt = [d \in test_domains |-> "idle"]
    /\ connected = "none"
    /\ pc = "idle"
    /\ counted = [d \in Domains |-> 0]
    /\ tally = [r \in Regions |-> 0]
    /\ results = [r \in Regions |-> NoResult]

InitDetect ==
    /\ NoPools
    /\ status = NoStatus
    /\ probe = [d \in Domains |-> "pending"]
    /\ detected = "none"
    /\ mirrorsYaml = NoYaml
    /\ configCache = NotLoaded
    /\ lookup = NoLookup
    /\ uvFile = "unused"
    /\ dockerFile = "unused"
    /\ last = "unused"

\* The probes run to completion with some outcome each, then the call returns.
CheckNetworkLocation ==
    /\ detected = "none"
    /\ \E outcomes \in [Domains -> ProbeOutcomes] :
        /\ probe' = outcomes
        /\ detected' = check_network_location(outcomes)
    /\ UNCHANGED <<mirrorsYaml, configCache, lookup, uvFile, dockerFile, last, status>>
    /\ UNCHANGED poolVars

NextDetect == CheckNetworkLocation

SpecDetect == InitDetect /\ [][NextDetect]_vars

(***************************************************************************)
(* SpecConfig: the process-wide ConfigManager and the default lookups      *)
(***************************************************************************)
InitConfig ==
    /\ NoPools
    /\ status = NoStatus
    /\ probe = [d \in Domains |-> "pending"]
    /\ detected = "none"
    /\ mirrorsYaml \in YamlFiles
    /\ configCache = NotLoaded
    /\ lookup = NoLookup
    /\ uvFile = "unused"
    /\ dockerFile = "unused"
    /\ last = "unused"

\* ConfigManager.__init__ at import, and reload_config: the cache is set from the file.
\* An exception out of _load_config leaves no cache behind.
LoadConfig ==
    /\ configCache.status = "unloaded"
    /\ LET r == _load_config(mirrorsYaml)
       IN configCache' = IF r.raised
                         THEN [status |-> "raised", config |-> EmptyConfig]
                         ELSE [status |-> "loaded", config |-> r.config]
    /\ lookup' = NoLookup
    /\ UNCHANGED <<probe, detected, mirrorsYaml, uvFile, dockerFile, last, status>>
    /\ UNCHANGED poolVars

GetDefaultMirror ==
    /\ configCache.status = "loaded"
    /\ \E kind \in Kinds, location \in NetworkLocation :
        LET r == get_default_mirror(configCache.config, kind, location, "")
        IN lookup' = [done |-> TRUE, kind |-> kind, location |-> location,
                      raised |-> r.raised, value |-> r.value]
    /\ UNCHANGED <<probe, detected, mirrorsYaml, configCache, uvFile, dockerFile, last, status>>
    /\ UNCHANGED poolVars

NextConfig == LoadConfig \/ GetDefaultMirror

SpecConfig == InitConfig /\ [][NextConfig]_vars

(***************************************************************************)
(* Spec: runs of the `update` command (cli.py), each a process of its own  *)
(* that loads mirrors.yaml at import and builds one MirrorManager.         *)
(***************************************************************************)
\* What check_network_location can hand to MirrorManager.__init__.
DetectableLocations == {check_network_location([d \in Domains |-> o]) : o \in ProbeOutcomes}

\* --location values: not given, the three regions, and a string that is none of them.
LocationArgs == {"", CHINA, GLOBAL, UNKNOWN, "mars"}

WriterYamlFiles ==
    {YamlFile("absent", EmptyMap), YamlFile("non_mapping", EmptyMap),
     YamlFile("unreadable", EmptyMap),
     YamlFile("mapping", (PipKind :> (CHINA :> "u1" @@ GLOBAL :> "u2")
                            @@ DockerKind :> (CHINA :> "u1"))),
     YamlFile("mapping", (DockerKind :> (GLOBAL :> "u2")))}

\* What one command did: `checked` says whether check_internet_connection was
\* called, `probed` whether check_network_location was.
CommandRun(cmd, checked, online, probed, location, mode, uv, docker, exit) ==
    [cmd |-> cmd, checked |-> checked, online |-> online, probed |-> probed,
     location |-> location, mode |-> mode, uv |-> uv, docker |-> docker, exit |-> exit]

Command(online, probed, location, mode, uv, docker, exit) ==
    CommandRun("update", TRUE, online, probed, location, mode, uv, docker, exit)

NoCommand == CommandRun("none", FALSE, FALSE, FALSE, "none", "none", "skip", "skip", 0)

\* The import of config_loader raised: the process dies before the command body.
ImportCrash(cmd) == CommandRun(cmd, FALSE, FALSE, FALSE, "none", "none", "skip", "skip", 1)

Aborted(uv, docker, cache, online, location) ==
    [uvFile |-> uv, dockerFile |-> docker, configCache |-> cache,
     last |-> Command(online, FALSE, location, "none", "skip", "skip", 1)]

\* A bug that skips the connectivity gate of `update`.
update_mirrors_ungated(uv, docker, yaml, online, location_arg, auto, uv_only, docker_only, ioUv, ioDocker) ==
    LET loaded == _load_config(yaml)
        cache == IF loaded.raised
                 THEN [status |-> "raised", config |-> EmptyConfig]
                 ELSE [status |-> "loaded", config |-> loaded.config]
        net_location == IF location_arg = "" THEN auto ELSE location_arg
        all == update_all_mirrors(uv, docker, loaded.config, net_location, ioUv, ioDocker)
    IN [uvFile |-> all.uvFile, dockerFile |-> all.dockerFile, configCache |-> cache,
        last |-> Command(online, location_arg = "", net_location, "all", all.uv, all.docker,
                         IF all.uv = "ok" /\ all.docker = "ok" THEN 0 ELSE 1)]

\* update_mirrors: connectivity gate, --location parsing, MirrorManager, then the
\* writers the flags select; exit code 1 when a selected writer returned False.
update_mirrors(uv, docker, yaml, online, location_arg, auto, uv_only, docker_only, ioUv, ioDocker) ==
    LET loaded == _load_config(yaml)
        cache == IF loaded.raised
                 THEN [status |-> "raised", config |-> EmptyConfig]
                 ELSE [status |-> "loaded", config |-> loaded.config]
        net_location == IF location_arg = "" THEN auto ELSE location_arg
        probed == location_arg = ""
        u == update_uv_mirror(uv, loaded.config, net_location, ioUv)
        d == update_docker_mirror(docker, loaded.config, net_location, ioDocker)
        all == update_all_mirrors(uv, docker, loaded.config, net_location, ioUv, ioDocker)
    IN CASE loaded.raised ->
                [uvFile |-> uv, dockerFile |-> docker, configCache |-> cache,
                 last |-> ImportCrash("update")]
         [] ~online -> Aborted(uv, docker, cache, FALSE, "none")
         [] location_arg # "" /\ location_arg \notin NetworkLocation ->
                Aborted(uv, docker, cache, TRUE, "invalid")
         [] uv_only ->
                [uvFile |-> u.file, dockerFile |-> docker, configCache |-> cache,
                 last |-> Command(TRUE, probed, net_location, "uv_only", Outcome(u.result),
                                  "skip", IF u.result THEN 0 ELSE 1)]
         [] docker_only ->
                [uvFile |-> uv, dockerFile |-> d.file, configCache |-> cache,
                 last |-> Command(TRUE, probed, net_location, "docker_only", "skip",
                                  Outcome(d.result), IF d.result THEN 0 ELSE 1)]
         [] OTHER ->
                [uvFile |-> all.uvFile, dockerFile |-> all.dockerFile, configCache |-> cache,
                 last |-> Command(TRUE, probed, net_location, "all", all.uv, all.docker,
                                  IF all.uv = "ok" /\ all.docker = "ok" THEN 0 ELSE 1)]

\* The part of Init the three writer specifications share.
InitProcess ==
    /\ NoPools
    /\ status = NoStatus
    /\ probe = [d \in Domains |-> "pending"]
    /\ detected = "none"
    /\ mirrorsYaml \in WriterYamlFiles
    /\ configCache = NotLoaded
    /\ lookup = NoLookup
    /\ last = NoCommand

\* Spec runs every form of the command over a selection of the two files.
SharedUvFiles == {f \in InitialUvFiles : Len(f.index) <= 1 /\ ~f.top}
SharedDockerFiles ==
    {f \in InitialDockerFiles : f.kind = "object" => DOMAIN f.siblings = SiblingKeys}

Init ==
    /\ InitProcess
    /\ uvFile \in SharedUvFiles
    /\ dockerFile \in SharedDockerFiles

\* SpecUv: `update --uv-only` over every package-index file.
InitUv ==
    /\ InitProcess
    /\ uvFile \in InitialUvFiles
    /\ dockerFile = DockerAbsent

\* SpecDocker: `update --docker-only` over every registry file.
InitDocker ==
    /\ InitProcess
    /\ uvFile = UvAbsent
    /\ dockerFile \in InitialDockerFiles

NoIo == [kind |-> "ok", cut |-> 0]

\* The regions a run can end up with: the one given, or the one detected.
AutoFor(arg) == IF arg = "" THEN DetectableLocations ELSE {CHINA}

\* `update` with no connectivity: exit before anything else.
UpdateOffline ==
    \E arg \in LocationArgs :
        \E r \in {update_mirrors(uvFile, dockerFile, mirrorsYaml, FALSE, arg, CHINA,
                                FALSE, FALSE, NoIo, NoIo)} :
           /\ uvFile' = r.uvFile
           /\ dockerFile' = r.dockerFile
           /\ configCache' = r.configCache
           /\ last' = r.last
           /\ status' = NoStatus
           /\ UNCHANGED <<probe, detected, mirrorsYaml, lookup>>
           /\ UNCHANGED poolVars

\* `update [--location <arg>]`: both writers.
UpdateAll ==
    \E arg \in LocationArgs, ioUv \in UvIoOutcomes, ioDocker \in DockerIoOutcomes :
        \E auto \in AutoFor(arg) :
            \E r \in {update_mirrors(uvFile, dockerFile, mirrorsYaml, TRUE, arg, auto,
                                    FALSE, FALSE, ioUv, ioDocker)} :
               /\ uvFile' = r.uvFile
               /\ dockerFile' = r.dockerFile
               /\ configCache' = r.configCache
               /\ last' = r.last
               /\ status' = NoStatus
               /\ UNCHANGED <<probe, detected, mirrorsYaml, lookup>>
               /\ UNCHANGED poolVars

\* `update --uv-only` (which wins over --docker-only when both are given).
UpdateUvOnly ==
    \E arg \in LocationArgs, ioUv \in UvIoOutcomes, docker_only \in BOOLEAN :
        \E auto \in AutoFor(arg) :
            \E r \in {update_mirrors(uvFile, dockerFile, mirrorsYaml, TRUE, arg, auto,
                                    TRUE, docker_only, ioUv, NoIo)} :
               /\ uvFile' = r.uvFile
               /\ dockerFile' = r.dockerFile
               /\ configCache' = r.configCache
               /\ last' = r.last
               /\ status' = NoStatus
               /\ UNCHANGED <<probe, detected, mirrorsYaml, lookup>>
               /\ UNCHANGED poolVars

\* `update --docker-only`.
UpdateDockerOnly ==
    \E arg \in LocationArgs, ioDocker \in DockerIoOutcomes :
        \E auto \in AutoFor(arg) :
            \E r \in {update_mirrors(uvFile, dockerFile, mirrorsYaml, TRUE, arg, auto,
                                    FALSE, TRUE, NoIo, ioDocker)} :
               /\ uvFile' = r.uvFile
               /\ dockerFile' = r.dockerFile
               /\ configCache' = r.configCache
               /\ last' = r.last
               /\ status' = NoStatus
               /\ UNCHANGED <<probe, detected, mirrorsYaml, lookup>>
               /\ UNCHANGED poolVars

Next == UpdateOffline \/ UpdateAll \/ UpdateUvOnly \/ UpdateDockerOnly

Spec == Init /\ [][Next]_vars

NextUv == UpdateOffline \/ UpdateUvOnly

SpecUv == InitUv /\ [][NextUv]_vars

NextDocker == UpdateOffline \/ UpdateDockerOnly

SpecDocker == InitDocker /\ [][NextDocker]_vars

(***************************************************************************)
(* SpecCli: every command of the tool, each run a process of its own:      *)
(* `detect`, `status` and `update` (cli.py) and `install`                  *)
(* (install_docker.py).                                                    *)
(***************************************************************************)
\* /etc/docker/daemon.json, which only the status report reads.
SystemDockerFiles ==
    {DockerAbsent, DockerMalformed, DockerFile(TRUE, "object", TRUE, <<"m7">>, EmptyMap)}

\* What `pip config list` yields for global.index-url: nothing, or a URL.
PipConfigs == {"unset", "p1"}

\* Lines 188-200: the url of the first index entry flagged default; None ("unset")
\* when the file is absent or anything on the way raises.
uv_mirror(file) ==
    LET config_data == tomllib_load(file)
        idx == FirstDefault(config_data.index)
    IN IF file.exists /\ ~config_data.raised /\ config_data.indexKind = "array" /\ idx # 0
       THEN config_data.index[idx].url
       ELSE "unset"

\* Lines 203-219: pip's index-url is looked up only when uv_mirror is falsy.
pip_mirror(uv, pip) == IF uv \in {"unset", ""} THEN pip ELSE "unset"

\* Lines 226-236 and 241-250: the first registry mirror of one JSON file.
first_registry_mirror(file) ==
    IF file.exists /\ file.kind = "object" /\ file.has_mirrors /\ file.mirrors # <<>>
    THEN file.mirrors[1]
    ELSE "unset"

\* Lines 222-250: the user file first, the system file when it gave nothing.
docker_mirror(user, system) ==
    IF first_registry_mirror(user) \notin {"unset", ""}
    THEN first_registry_mirror(user)
    ELSE first_registry_mirror(system)

\* get_mirror_status: the two recommended values are looked up outside any try,
\* so an exception of get_default_mirror leaves the function.
get_mirror_status(uv, docker, system, pip, config, network_location) ==
    LET recommended_uv == get_default_pip_mirror(config, network_location)
        recommended_docker == get_default_docker_mirror(config, network_location)
    IN IF recommended_uv.raised \/ recommended_docker.raised
       THEN [NoStatus EXCEPT !.done = TRUE, !.raised = TRUE,
                             !.network_location = network_location]
       ELSE [done |-> TRUE, raised |-> FALSE, network_location |-> network_location,
             uv_mirror |-> uv_mirror(uv),
             pip_mirror |-> pip_mirror(uv_mirror(uv), pip),
             docker_mirror |-> docker_mirror(docker, system),
             recommended_uv_mirror |-> recommended_uv.value,
             recommended_docker_mirror |-> recommended_docker.value]

ImportCache(yaml) ==
    IF _load_config(yaml).raised
    THEN [status |-> "raised", config |-> EmptyConfig]
    ELSE [status |-> "loaded", config |-> _load_config(yaml).config]

\* A bug that probes the region whatever the connectivity check said.
detect_network_ungated(yaml, online, auto) ==
    CommandRun("detect", TRUE, online, TRUE, auto, "none", "skip", "skip", 0)

\* `detect`: the connectivity gate, then the region probes.
detect_network(yaml, online, auto) ==
    CASE _load_config(yaml).raised -> ImportCrash("detect")
      [] ~online -> CommandRun("detect", TRUE, FALSE, FALSE, "none", "none", "skip", "skip", 1)
      [] OTHER -> CommandRun("detect", TRUE, TRUE, TRUE, auto, "none", "skip", "skip", 0)

\* `status`: get_mirror_status with no connectivity check before its probes; an
\* exception out of it ends the process with a traceback and exit code 1.
show_status(yaml, uv, docker, system, pip, auto) ==
    LET report == get_mirror_status(uv, docker, system, pip, _load_config(yaml).config, auto)
    IN IF _load_config(yaml).raised
       THEN [status |-> NoStatus, last |-> ImportCrash("status")]
       ELSE [status |-> report,
             last |-> CommandRun("status", FALSE, FALSE, TRUE, auto, "none", "skip", "skip",
                                 IF report.raised THEN 1 ELSE 0)]

\* `install`: nothing to do when Docker is there; else the connectivity gate,
\* --location or the region probes, the platform table, and the commands.
install_docker(yaml, installed, online, location_arg, auto, supported, auto_execute, commands_ok) ==
    LET net_location == IF location_arg = "" THEN auto ELSE location_arg
        probed == location_arg = ""
    IN CASE _load_config(yaml).raised -> ImportCrash("install")
         [] installed ->
                CommandRun("install", FALSE, FALSE, FALSE, "none", "none", "skip", "skip", 0)
         [] ~online ->
                CommandRun("install", TRUE, FALSE, FALSE, "none", "none", "skip", "skip", 1)
         [] location_arg # "" /\ location_arg \notin NetworkLocation ->
                CommandRun("install", TRUE, TRUE, FALSE, "invalid", "none", "skip", "skip", 1)
         [] ~supported ->
                CommandRun("install", TRUE, TRUE, probed, net_location, "none", "skip", "skip", 1)
         [] auto_execute /\ ~commands_ok ->
                CommandRun("install", TRUE, TRUE, probed, net_location, "none", "skip", "skip", 1)
         [] OTHER ->
                CommandRun("install", TRUE, TRUE, probed, net_location, "none", "skip", "skip", 0)

DetectNetwork ==
    \E online \in BOOLEAN, auto \in DetectableLocations :
        /\ last' = detect_network(mirrorsYaml, online, auto)
        /\ configCache' = ImportCache(mirrorsYaml)
        /\ status' = NoStatus
        /\ UNCHANGED <<probe, detected, mirrorsYaml, lookup, uvFile, dockerFile>>
        /\ UNCHANGED poolVars

ShowStatus ==
    \E system \in SystemDockerFiles, pip \in PipConfigs, auto \in DetectableLocations :
        \E r \in {show_status(mirrorsYaml, uvFile, dockerFile, system, pip, auto)} :
           /\ status' = r.status
           /\ last' = r.last
           /\ configCache' = ImportCache(mirrorsYaml)
           /\ UNCHANGED <<probe, detected, mirrorsYaml, lookup, uvFile, dockerFile>>
           /\ UNCHANGED poolVars

InstallDocker ==
    \E installed \in BOOLEAN, online \in BOOLEAN, arg \in LocationArgs,
       supported \in BOOLEAN, auto_execute \in BOOLEAN, commands_ok \in BOOLEAN :
        \E auto \in AutoFor(arg) :
           /\ last' = install_docker(mirrorsYaml, installed, online, arg, auto, supported,
                                     auto_execute, commands_ok)
           /\ configCache' = ImportCache(mirrorsYaml)
           /\ status' = NoStatus
           /\ UNCHANGED <<probe, detected, mirrorsYaml, lookup, uvFile, dockerFile>>
           /\ UNCHANGED poolVars

NextCli ==
    \/ UpdateOffline \/ UpdateAll \/ UpdateUvOnly \/ UpdateDockerOnly
    \/ DetectNetwork \/ ShowStatus \/ InstallDocker

\* The runs start from a few of the files: absent, unreadable, and well-formed.
CliUvFiles ==
    {UvAbsent, UvFile(TRUE, TRUE, FALSE, "none", <<>>),
     UvFile(TRUE, FALSE, FALSE, "array", <<TextEntry("e1", "true")>>)}

CliDockerFiles ==
    {DockerMalformed,
     DockerFile(TRUE, "object", TRUE, <<"m9">>, [k \in SiblingKeys |-> "v1"])}

InitCli ==
    /\ InitProcess
    /\ uvFile \in CliUvFiles
    /\ dockerFile \in CliDockerFiles

SpecCli == InitCli /\ [][NextCli]_vars

(***************************************************************************)
(* C1: check_network_location returns GLOBAL exactly when at least 4 of    *)
(* the 5 global probes succeed (rate > 0.6) and CHINA in every other case, *)
(* whatever the in-region probes did; it never returns UNKNOWN.            *)
(***************************************************************************)
Reached(S) == Cardinality({d \in S : probe[d] = "ok"})

Errored(d) == probe[d] \in {"request_exception", "other_exception"}

AsUnreachable == [d \in Domains |-> IF Errored(d) THEN "request_exception" ELSE probe[d]]

C2_ErrorsAbsorbed ==
    detected # "none" =>
        /\ detected \in {CHINA, GLOBAL}
        /\ detected = classify(_count_successful_domains(china_domains, AsUnreachable),
                               _count_successful_domains(global_domains, AsUnreachable))
        /\ ((\A d \in Domains : Errored(d)) => detected = CHINA)

\* A global probe raised something other than RequestException, the other four answered.
C2_Witness ==
    /\ detected = GLOBAL
    /\ \E d \in global_domains :
        /\ probe[d] = "other_exception"
        /\ \A e \in global_domains \ {d} : probe[e] = "ok"
    /\ \E d \in china_domains : probe[d] = "request_exception"

Entries(kind) ==
    IF kind \in DOMAIN configCache.config.doc THEN configCache.config.doc[kind] ELSE EmptyMap

C4_FallbackChain ==
    (lookup.done /\ configCache.config.mapping) =>
        LET entries == Entries(lookup.kind)
        IN /\ ~lookup.raised
           /\ (lookup.location \in DOMAIN entries => lookup.value = entries[lookup.location])
           /\ (lookup.location \notin DOMAIN entries /\ GLOBAL \in DOMAIN entries =>
                   lookup.value = entries[GLOBAL])
           /\ (lookup.location \notin DOMAIN entries /\ GLOBAL \notin DOMAIN entries =>
                   lookup.value = "")

\* A kind with only a GLOBAL entry, asked for CHINA, answers the GLOBAL value.
C4_Witness ==
    /\ lookup.done
    /\ configCache.config.mapping
    /\ lookup.location = CHINA
    /\ DOMAIN Entries(lookup.kind) = {GLOBAL}
    /\ lookup.value = "u1"

(***************************************************************************)
(* What the writers' claims read off the state                             *)
(***************************************************************************)
LoadedConfig == _load_config(mirrorsYaml).config
ResolvedPip(location) == get_default_pip_mirror(LoadedConfig, location).value
ResolvedDocker(location) == get_default_docker_mirror(LoadedConfig, location).value

DefaultFlagged(t) == t.default \in {"true", "True"}
DefaultPositions(file) == {i \in 1..Len(file.index) : DefaultFlagged(file.index[i])}
DefaultCount(file) == Cardinality(DefaultPositions(file))

\* The entries not flagged default, each as its url and its flag's truth value.
NonDefaultEntries(file) ==
    {[url |-> file.index[i].url, flagged |-> file.index[i].default # "absent"] :
        i \in {j \in 1..Len(file.index) : ~DefaultFlagged(file.index[j])}}

Siblings(file) == IF file.exists /\ file.kind = "object" THEN file.siblings ELSE EmptyMap

(***************************************************************************)
(* C5 as stated: applying the same region's mirror twice with              *)
(* update_uv_mirror leaves exactly one default-flagged entry, holding the  *)
(* resolved mirror, and the second apply leaves the file as the first      *)
(* left it.                                                                *)
(***************************************************************************)
C5_Idempotent ==
    [][(last.uv = "ok" /\ last'.uv = "ok" /\ last'.location = last.location) =>
          /\ uvFile' = uvFile
          /\ DefaultCount(uvFile') = 1
          /\ \A i \in DefaultPositions(uvFile') :
                uvFile'.index[i].url = ResolvedPip(last'.location)]_vars

(***************************************************************************)
(* C6 as stated: every non-default entry of the persisted config is still  *)
(* there, with its url and flag, after a successful update_uv_mirror, also *)
(* when the file read is one this writer wrote.                            *)
(***************************************************************************)
C6_NonDefaultKept ==
    [][last'.uv = "ok" => NonDefaultEntries(uvFile) \subseteq NonDefaultEntries(uvFile')]_vars

(***************************************************************************)
(* C7 as stated: after every write by update_uv_mirror at most one record  *)
(* is flagged default, whatever the file held before.                      *)
(***************************************************************************)
C7_AtMostOneDefault == last.uv = "ok" => DefaultCount(uvFile) <= 1

(***************************************************************************)
(* C7 amended: a write by update_uv_mirror keeps "at most one record is    *)
(* flagged default": if the file held at most one such record before the   *)
(* write it holds at most one after it, and exactly one when the write     *)
(* succeeded. (A file that already held several keeps them all.)           *)
(***************************************************************************)
C7_AtMostOneDefaultKept ==
    [][(last'.uv # "skip" /\ DefaultCount(uvFile) <= 1) =>
          /\ DefaultCount(uvFile') <= 1
          /\ (last'.uv = "ok" => DefaultCount(uvFile') = 1)]_vars

\* An existing default entry was given the mirror next to a non-default one.
C7_Witness ==
    /\ last.uv = "ok"
    /\ Len(uvFile.index) = 2
    /\ DefaultCount(uvFile) = 1
    /\ uvFile.index[1].default = "True"
    /\ uvFile.index[1].url = "u1"

(***************************************************************************)
(* C8: after a successful update_docker_mirror the registry config has no  *)
(* `registry-mirrors` key when the resolved mirror is empty, and has       *)
(* exactly [resolved mirror] under it otherwise.                           *)
(***************************************************************************)
C8_RegistryResult ==
    last.docker = "ok" =>
        LET mirror == ResolvedDocker(last.location)
        IN /\ (mirror = "" => ~dockerFile.has_mirrors)
           /\ (mirror # "" => dockerFile.has_mirrors /\ dockerFile.mirrors = <<mirror>>)

\* A non-empty mirror was applied to an object with sibling keys.
C8_Witness ==
    /\ last.docker = "ok"
    /\ ResolvedDocker(last.location) = "u2"
    /\ dockerFile.mirrors = <<"u2">>
    /\ DOMAIN dockerFile.siblings = SiblingKeys

(***************************************************************************)
(* C9: a successful update_docker_mirror leaves every key of the registry  *)
(* config other than `registry-mirrors` with the value it had.             *)
(***************************************************************************)
C9_SiblingsKept ==
    [][last'.docker = "ok" => Siblings(dockerFile') = Siblings(dockerFile)]_vars

\* The key was removed from an object that keeps its sibling keys.
C9_Witness ==
    /\ last.docker = "ok"
    /\ ResolvedDocker(last.location) = ""
    /\ dockerFile.kind = "object"
    /\ ~dockerFile.has_mirrors
    /\ DOMAIN dockerFile.siblings = SiblingKeys

(***************************************************************************)
(* C10: update_all_mirrors runs both writers and reports each: a failing   *)
(* writer yields False for its own tool only, the other still runs and     *)
(* what it wrote is on disk, and the command exits 0 only if both          *)
(* succeeded.                                                              *)
(***************************************************************************)
C10_WritersIndependent ==
    last.mode = "all" =>
        /\ last.uv \in {"ok", "fail"}
        /\ last.docker \in {"ok", "fail"}
        /\ (last.uv = "ok" =>
                \E i \in DefaultPositions(uvFile) :
                    uvFile.index[i].url = ResolvedPip(last.location))
        /\ (last.docker = "ok" =>
                IF ResolvedDocker(last.location) = ""
                THEN ~dockerFile.has_mirrors
                ELSE dockerFile.mirrors = <<ResolvedDocker(last.location)>>)
        /\ (last.exit = 0 <=> (last.uv = "ok" /\ last.docker = "ok"))

\* The package-index writer failed and the registry writer still wrote its mirror.
C10_Witness ==
    /\ last.mode = "all"
    /\ last.uv = "fail"
    /\ last.docker = "ok"
    /\ dockerFile.mirrors = <<"u1">>

(***************************************************************************)
(* SpecConnect: one call of check_internet_connection, its four            *)
(* _check_socket_connection attempts running in the pool's threads while   *)
(* the caller walks as_completed.                                          *)
(***************************************************************************)
\* The variables the thread-pool specifications leave alone.
seqVars == <<mirrorsYaml, configCache, lookup, uvFile, dockerFile, last, status>>

\* How one attempt ends: connected, a caught socket error (False), or another
\* exception kept in its future.
AttemptOutcomes == {"ok", "fail", "raised"}

InFlight == {d \in test_domains : attempt[d] = "running"}

\* Line 135: max_workers = 4 and four submits, so every attempt starts at once.
StartConnectivity ==
    /\ pc = "idle"
    /\ attempt' = [d \in test_domains |-> "running"]
    /\ pc' = "racing"
    /\ UNCHANGED <<probe, detected, connected, counted, tally, results>>
    /\ UNCHANGED seqVars

\* A worker thread finishes its attempt, whatever the caller is doing.
AttemptFinishes ==
    \E d \in InFlight, outcome \in AttemptOutcomes :
        /\ attempt' = [attempt EXCEPT ![d] = outcome]
        /\ UNCHANGED <<probe, detected, connected, pc, counted, tally, results>>
        /\ UNCHANGED seqVars

\* Lines 137-142: as_completed hands over a finished future; a True result goes
\* to `return True`, which first has to leave the `with` block of the executor.
TakeAttempt ==
    /\ pc = "racing"
    /\ \E d \in test_domains :
        /\ attempt[d] \in AttemptOutcomes
        /\ counted[d] = 0
        /\ counted' = [counted EXCEPT ![d] = 1]
        /\ pc' = IF attempt[d] = "ok" THEN "exit_true" ELSE "racing"
    /\ UNCHANGED <<probe, detected, attempt, connected, tally, results>>
    /\ UNCHANGED seqVars

\* as_completed is exhausted: every future was taken and none was True.
AttemptsExhausted ==
    /\ pc = "racing"
    /\ \A d \in test_domains : counted[d] = 1
    /\ pc' = "exit_false"
    /\ UNCHANGED <<probe, detected, attempt, connected, counted, tally, results>>
    /\ UNCHANGED seqVars

\* ThreadPoolExecutor.__exit__ is shutdown(wait=True): it joins every worker thread.
ExecutorExit == InFlight = {}

\* Lines 140 and 144: the value reaches the caller once the executor is left.
ReturnConnectivity ==
    /\ pc \in {"exit_true", "exit_false"}
    /\ ExecutorExit
    /\ connected' = IF pc = "exit_true" THEN "true" ELSE "false"
    /\ pc' = "returned"
    /\ UNCHANGED <<probe, detected, attempt, counted, tally, results>>
    /\ UNCHANGED seqVars

NextConnect ==
    \/ StartConnectivity \/ AttemptFinishes \/ TakeAttempt
    \/ AttemptsExhausted \/ ReturnConnectivity

SpecConnect == InitDetect /\ [][NextConnect]_vars

(***************************************************************************)
(* SpecJoin: one call of check_network_location with its ten probes        *)
(* running in the pool's threads while the caller counts the two sets.     *)
(***************************************************************************)
MAX_WORKERS == 5

\* Lines 41-42: the probes are submitted set by set, each in list order.
submission ==
    <<"baidu.com", "taobao.com", "qq.com", "aliyun.com", "163.com",
      "google.com", "facebook.com", "twitter.com", "github.com", "cloudflare.com">>

futures_of(region) == IF region = CHINA THEN china_domains ELSE global_domains

Running == {d \in Domains : probe[d] = "running"}

\* The work queue of the executor is first in, first out.
QueueHead(d) ==
    \E i \in 1..Len(submission) :
        /\ submission[i] = d
        /\ \A j \in 1..(i - 1) : probe[submission[j]] # "queued"

\* Lines 39-42: the pool is created and all ten probes are submitted.
SubmitProbes ==
    /\ pc = "idle"
    /\ probe' = [d \in Domains |-> "queued"]
    /\ pc' = CHINA
    /\ UNCHANGED <<detected, attempt, connected, counted, tally, results>>
    /\ UNCHANGED seqVars

\* A free worker thread takes the next probe off the queue.
ProbeStarts ==
    /\ Cardinality(Running) < MAX_WORKERS
    /\ \E d \in Domains :
        /\ probe[d] = "queued"
        /\ QueueHead(d)
        /\ probe' = [probe EXCEPT ![d] = "running"]
    /\ UNCHANGED <<detected, attempt, connected, pc, counted, tally, results>>
    /\ UNCHANGED seqVars

\* How a probe ends here: an answer or a failure, which is a RequestException
\* (result (False, 0)) in the first set and an exception kept in the future in
\* the second. SpecDetect goes through all three outcomes for every probe.
JoinOutcomes(d) ==
    IF d \in china_domains THEN {"ok", "request_exception"} ELSE {"ok", "other_exception"}

\* _http_head_fast ends in its thread and the future holds its outcome.
ProbeFinishes ==
    \E d \in Running :
      \E outcome \in JoinOutcomes(d) :
        /\ probe' = [probe EXCEPT ![d] = outcome]
        /\ UNCHANGED <<detected, attempt, connected, pc, counted, tally, results>>
        /\ UNCHANGED seqVars

\* A bug that ends the counting loop when no finished future is waiting.
loop_exhausted_streaming(futures) ==
    \A d \in futures : probe[d] \in ProbeOutcomes => counted[d] >= 1

\* as_completed(futures_dict) stops after it has yielded every future of the dict.
loop_exhausted(futures) == \A d \in futures : counted[d] >= 1

\* Lines 79-87: as_completed yields a finished future of the set being counted,
\* each future once; a success adds one to `successful`.
TakeFuture ==
    /\ pc \in Regions
    /\ \E d \in futures_of(pc) :
        /\ probe[d] \in ProbeOutcomes
        /\ counted[d] = 0
        /\ counted' = [counted EXCEPT ![d] = counted[d] + 1]
        /\ tally' = [tally EXCEPT ![pc] =
                        IF ~_http_head_fast(probe[d]).raised /\ _http_head_fast(probe[d]).success
                        THEN tally[pc] + 1 ELSE tally[pc]]
    /\ UNCHANGED <<probe, detected, attempt, connected, pc, results>>
    /\ UNCHANGED seqVars

\* Lines 89-95 and 45-46: the loop is over, the summary of the set is returned
\* and the caller goes on to the next set, or to the classification.
ReturnSummary ==
    /\ pc \in Regions
    /\ loop_exhausted(futures_of(pc))
    /\ results' = [results EXCEPT ![pc] =
                      [done |-> TRUE, num |-> tally[pc], den |-> Cardinality(futures_of(pc))]]
    /\ pc' = IF pc = CHINA THEN GLOBAL ELSE "classify"
    /\ UNCHANGED <<probe, detected, attempt, connected, counted, tally>>
    /\ UNCHANGED seqVars

\* Lines 47-62: the executor is left (its threads joined) and the two summaries
\* are classified.
ClassifyLocation ==
    /\ pc = "classify"
    /\ Running = {}
    /\ \A d \in Domains : probe[d] # "queued"
    /\ detected' = classify(results[CHINA], results[GLOBAL])
    /\ pc' = "returned"
    /\ UNCHANGED <<probe, attempt, connected, counted, tally, results>>
    /\ UNCHANGED seqVars

NextJoin ==
    \/ SubmitProbes \/ ProbeStarts \/ ProbeFinishes
    \/ TakeFuture \/ ReturnSummary \/ ClassifyLocation

SpecJoin == InitDetect /\ [][NextJoin]_vars

(***************************************************************************)
(* The status report and the connectivity gate (SpecCli)                   *)
(***************************************************************************)
UvUnreadable == ~uvFile.exists \/ tomllib_load(uvFile).raised

DockerUnreadable == ~dockerFile.exists \/ dockerFile.kind # "object"

\* C11: get_mirror_status never fails, whatever the three configuration files hold:
\* it returns a snapshot, and a sub-config it could not read is reported as unset.
C11_StatusNeverFails ==
    status.done =>
        /\ ~status.raised
        /\ UvUnreadable => status.uv_mirror = "unset"
        /\ DockerUnreadable => status.docker_mirror \in {"unset", "m7"}

Wrote(run) == run.uv # "skip" \/ run.docker # "skip"

AllCommands == {"detect", "status", "update", "install"}
GatedCommands == {"detect", "update", "install"}

\* C12 as stated: in every command that detects the region or applies mirrors,
\* `status` included, probes and writes come only after the connectivity check
\* said yes, and a check that said no ends the command with a non-zero exit.
C12_GateEverywhere ==
    last.cmd \in AllCommands =>
        /\ (last.probed \/ Wrote(last)) => (last.checked /\ last.online)
        /\ (last.checked /\ ~last.online) => (last.exit # 0 /\ ~last.probed /\ ~Wrote(last))

\* C12: in `detect`, `update` and `install` the region probes and the writers run
\* only after the connectivity check said yes; when it says no the command exits
\* non-zero, starts no probe and leaves both config files as they were. `status`
\* runs the region probes with no connectivity check at all.
C12_GateBeforeProbeOrWrite ==
    [][/\ last'.cmd \in GatedCommands =>
            /\ (last'.probed \/ Wrote(last')) => (last'.checked /\ last'.online)
            /\ (last'.checked /\ ~last'.online) =>
                    /\ last'.exit # 0
                    /\ ~last'.probed
                    /\ ~Wrote(last')
                    /\ uvFile' = uvFile
                    /\ dockerFile' = dockerFile
       /\ (uvFile' # uvFile \/ dockerFile' # dockerFile) => (last'.checked /\ last'.online)
       /\ (last'.cmd = "status" /\ status'.done) => (~last'.checked /\ last'.probed)]_vars

\* An `update` stopped at the gate while a package-index file was there to write,
\* after an earlier run had written it.
C12_Witness ==
    /\ last.cmd = "update"
    /\ last.checked
    /\ ~last.online
    /\ last.exit = 1
    /\ uvFile.exists
    /\ dockerFile.exists

(***************************************************************************)
(* The package-index writer and the rest of the file (SpecUv)              *)
(***************************************************************************)
\* C13: a successful update_uv_mirror over a readable file keeps every setting but
\* the url of the default entry: the top-level settings outside `index` are still
\* there, and so is every other index entry with its url.
C13_SettingsKept ==
    [][(last'.uv = "ok" /\ uvFile.exists /\ ~tomllib_load(uvFile).raised) =>
            /\ uvFile.top => uvFile'.top
            /\ Len(uvFile'.index) >= Len(uvFile.index)
            /\ \A i \in 1..Len(uvFile.index) :
                    i # FirstDefault(tomllib_load(uvFile).index) =>
                        uvFile'.index[i].url = uvFile.index[i].url]_vars

(***************************************************************************)
(* Failure while writing (Spec)                                            *)
(***************************************************************************)
\* C15: a writer that fails (returns False) leaves its config file holding the
\* complete content it had before the call, never a truncated or partial one.
C15_FailedWriteKeepsFile ==
    [][/\ last'.uv = "fail" => uvFile' = uvFile
       /\ last'.docker = "fail" => dockerFile' = dockerFile]_vars

(***************************************************************************)
(* Reading back what the package-index writer wrote (SpecUv)               *)
(***************************************************************************)
\* C17: after update_uv_mirror returned True for a non-empty mirror URL, the file
\* it wrote parses, and the reader of get_mirror_status reports that URL as the
\* default index, not unset.
C17_RoundTrip ==
    (last.uv = "ok" /\ ResolvedPip(last.location) # "") =>
        /\ ~tomllib_load(uvFile).raised
        /\ uv_mirror(uvFile) = ResolvedPip(last.location)

(***************************************************************************)
(* The connectivity race (SpecConnect)                                     *)
(***************************************************************************)
\* C14: once one attempt has succeeded check_internet_connection returns true
\* without waiting for the attempts still in flight, and it returns false only
\* when every attempt has failed, timed out or raised.
C14_ShortCircuit ==
    /\ pc = "exit_true" => ENABLED ReturnConnectivity
    /\ connected = "false" => \A d \in test_domains : attempt[d] \in {"fail", "raised"}

(***************************************************************************)
(* The join barrier of region detection (SpecJoin)                         *)
(***************************************************************************)
Succeeded(region) == {d \in futures_of(region) : probe[d] = "ok"}

\* C16: under every interleaving of the probe workers a set's summary exists only
\* once every probe of the set has completed or failed, the classification only
\* once both summaries exist, and every probe is counted exactly once, in the
\* summary of its own set: the summary is the one the finished outcomes give.
C16_JoinBarrier ==
    /\ \A d \in Domains : counted[d] <= 1
    /\ \A r \in Regions :
        /\ tally[r] = Cardinality({d \in Succeeded(r) : counted[d] = 1})
        /\ results[r].done =>
                /\ \A d \in futures_of(r) : probe[d] \in ProbeOutcomes /\ counted[d] = 1
                /\ results[r].num = Cardinality(Succeeded(r))
                /\ results[r].den = Cardinality(futures_of(r))
    /\ detected # "none" =>
            /\ results[CHINA].done
            /\ results[GLOBAL].done
            /\ detected = check_network_location(probe)

\* The first set is summed up while probes of the second are still running, one
\* has already answered and one has not started.
C16_Witness ==
    /\ results[CHINA].done
    /\ ~results[GLOBAL].done
    /\ results[CHINA].num = 3
    /\ \E d \in global_domains : probe[d] = "running"
    /\ \E d \in global_domains : probe[d] = "ok"
    /\ \E d \in global_domains : probe[d] = "queued"

====
